---- MODULE Spec2Model ----
(***************************************************************************)
(* A model of app.py, the Streamlit dashboard "PredPol 2.0".               *)
(*                                                                         *)
(* Streamlit runs the whole script top to bottom on every user             *)
(* interaction.  st.session_state and the widget values survive from one   *)
(* run to the next; everything else (the sidebar messages, the charts, the *)
(* local variables) is rebuilt by each run.  A run that presses            *)
(* "Get Prediction" blocks inside requests.post until the remote API       *)
(* answers or the connection fails; the script thread handles no other     *)
(* interaction while it is blocked.                                        *)
(*                                                                         *)
(* Coordinates are points of an integer grid, ward polygons are            *)
(* axis-aligned rectangles of that grid, probabilities are integers in     *)
(* units of 1/1000 and a formatted timestamp is the sequence of its        *)
(* characters.                                                             *)
(***************************************************************************)
EXTENDS Integers, Sequences, FiniteSets, TLC

VARIABLES
    csv_file,          \* raw_data/ward_demographics_boundaries.csv
    gdf,               \* the cached GeoDataFrame: rows [Ward, the_geom]
    ward_bound,        \* st.session_state.ward_bound: [columns, rows]
    last_clicked,      \* map_output['last_clicked']
    selected_coords,   \* st.session_state.selected_coords
    selected_ward,     \* st.session_state.selected_ward
    selected_date,     \* the date_input widget
    selected_category, \* the selectbox widget
    middle_time,       \* the script's middle_time
    pc,                \* "idle", or "waiting" inside requests.post
    payload,           \* the JSON body of the POST of this run
    posts,             \* POSTs sent since the button was last pressed
    response,          \* what requests.post produced
    reports,           \* st.sidebar.error / st.success / st.error of this run
    fig,               \* the crime chart given to st.plotly_chart
    demographics,      \* the two demographic charts given to st.plotly_chart
    arg_category,      \* a direct call of the time bucketer: its category
    arg_date,          \*   its selected_date
    ret                \*   and what the call produced

vars == <<csv_file, gdf, ward_bound, last_clicked, selected_coords, selected_ward,
          selected_date, selected_category, middle_time, pc, payload, posts,
          response, reports, fig, demographics, arg_category, arg_date, ret>>

appVars == <<csv_file, gdf, ward_bound, last_clicked, selected_coords,
             selected_ward,
             selected_date, selected_category, middle_time, pc, payload,
             posts, response, reports, fig, demographics>>

callVars == <<arg_category, arg_date, ret>>

\* Python's None is the empty sequence.  A value that may be None and is not
\* itself a sequence (a ward identifier, a record) is held as Some(value).
None == <<>>

Some(v) == <<v>>

(***************************************************************************)
(* Bounds of the model.                                                    *)
(***************************************************************************)
\* Dates of the direct calls range over every day of 2023 .. MaxYear.
MaxYear == 2024
\* The map is the grid 0..MaxLat x 0..MaxLon.
MaxLat == 4
MaxLon == 4
\* A response mapping holds at most MaxTypes crime types.
MaxTypes == 2

(***************************************************************************)
(* Calendar dates, datetime + timedelta, and strftime.                     *)
(***************************************************************************)
IsLeap(y) == (y % 4 = 0 /\ y % 100 # 0) \/ y % 400 = 0

DaysInMonth(y, m) ==
    IF m = 2 THEN (IF IsLeap(y) THEN 29 ELSE 28)
    ELSE IF m \in {4, 6, 9, 11} THEN 30 ELSE 31

Date(y, m, d) == [year |-> y, month |-> m, day |-> d]

NextDay(date) ==
    IF date.day < DaysInMonth(date.year, date.month)
    THEN Date(date.year, date.month, date.day + 1)
    ELSE IF date.month < 12 THEN Date(date.year, date.month + 1, 1)
    ELSE Date(date.year + 1, 1, 1)

RECURSIVE AddDays(_, _)
AddDays(date, n) == IF n = 0 THEN date ELSE AddDays(NextDay(date), n - 1)

\* datetime.combine(selected_date, datetime.min.time()) + timedelta(minutes)
DatetimePlus(date, minutes) ==
    [date   |-> AddDays(date, minutes \div 1440),
     hour   |-> (minutes % 1440) \div 60,
     minute |-> minutes % 60]

Digits == <<"0", "1", "2", "3", "4", "5", "6", "7", "8", "9">>

Digit(n) == Digits[n + 1]

Pad2(n) == <<Digit((n \div 10) % 10), Digit(n % 10)>>

Pad4(n) == <<Digit((n \div 1000) % 10), Digit((n \div 100) % 10)>> \o Pad2(n)

\* datetime.strftime("%Y-%m-%d %H:%M")
Strftime(dt) ==
    Pad4(dt.date.year) \o <<"-">> \o Pad2(dt.date.month) \o <<"-">>
        \o Pad2(dt.date.day) \o <<" ">> \o Pad2(dt.hour) \o <<":">>
        \o Pad2(dt.minute)

(***************************************************************************)
(* The time bucketer.                                                      *)
(***************************************************************************)
categories ==
    <<"Late Night (00:00 to 06:00)", "Early Morning (06:00 to 09:00)",
      "Late Morning (09:00 to 12:00)", "Early Noon (12:00 to 15:00)",
      "Late Noon (15:00 to 18:00)", "Early Night (18:00 to 24:00)">>

time_ranges ==
    ("Late Night (00:00 to 06:00)" :> <<0, 6>>)
 @@ ("Early Morning (06:00 to 09:00)" :> <<6, 9>>)
 @@ ("Late Morning (09:00 to 12:00)" :> <<9, 12>>)
 @@ ("Early Noon (12:00 to 15:00)" :> <<12, 15>>)
 @@ ("Late Noon (15:00 to 18:00)" :> <<15, 18>>)
 @@ ("Early Night (18:00 to 24:00)" :> <<18, 24>>)

\* A faulty variant: the midpoint without the division by two.
get_middle_time_no_halving(category, date) ==
    IF category \in DOMAIN time_ranges
    THEN LET start_hour == time_ranges[category][1]
             end_hour   == time_ranges[category][2]
         IN  Strftime(DatetimePlus(date, (start_hour + end_hour) * 60))
    ELSE None

\* A faulty variant: an unknown label falls back to the whole day.
get_middle_time_default_range(category, date) ==
    LET range      == IF category \in DOMAIN time_ranges
                      THEN time_ranges[category] ELSE <<0, 24>>
        start_hour == range[1]
        end_hour   == range[2]
    IN  Strftime(DatetimePlus(date, ((start_hour + end_hour) * 60) \div 2))

\* middle_hour = (start_hour + end_hour) / 2 is a float (7.5 for Early
\* Morning) and timedelta(hours=middle_hour) is 60 * middle_hour minutes.
get_middle_time_for_category(category, date) ==
    IF category \in DOMAIN time_ranges
    THEN LET start_hour     == time_ranges[category][1]
             end_hour       == time_ranges[category][2]
             middle_minutes == ((start_hour + end_hour) * 60) \div 2
         IN  Strftime(DatetimePlus(date, middle_minutes))
    ELSE None

(***************************************************************************)
(* The ward boundary data and the ward resolver.                           *)
(***************************************************************************)
Lats == 0 .. MaxLat

Lons == 0 .. MaxLon

\* A ward polygon: the rectangle with these corners, x a longitude and y a
\* latitude.
Box(minx, miny, maxx, maxy) ==
    [minx |-> minx, miny |-> miny, maxx |-> maxx, maxy |-> maxy]

\* shapely.geometry.Point(x, y)
Point(x, y) == [x |-> x, y |-> y]

\* shapely's polygon.contains(point): the point lies in the interior; a
\* point of the boundary is not contained.
Contains(geom, point) ==
    /\ geom.minx < point.x /\ point.x < geom.maxx
    /\ geom.miny < point.y /\ point.y < geom.maxy

percentage_columns ==
    <<"Race-White_pct", "Race-Black_pct", "Race-Asian_pct",
      "Ethnicity-Hispanic_pct", "Income-24999_minus_pct",
      "Income-25000-49999_pct", "Income-50000-99999_pct",
      "Income-100000-149999_pct", "Income-150000_plus_pct">>

layer_name_mapping ==
    ("Race-White_pct" :> "White Population (%)")
 @@ ("Race-Black_pct" :> "Black Population (%)")
 @@ ("Race-Asian_pct" :> "Asian Population (%)")
 @@ ("Ethnicity-Hispanic_pct" :> "Hispanic Population (%)")
 @@ ("Income-24999_minus_pct" :> "Income <$25k (%)")
 @@ ("Income-25000-49999_pct" :> "Income $25k-$50k (%)")
 @@ ("Income-50000-99999_pct" :> "Income $50k-$100k (%)")
 @@ ("Income-100000-149999_pct" :> "Income $100k-$150k (%)")
 @@ ("Income-150000_plus_pct" :> "Income >$150k (%)")

\* The files raw_data/ward_demographics_boundaries.csv the model starts from:
\* one square ward; two wards that share an edge; two wards whose interiors
\* overlap (a data error), the second listed having the smaller identifier.
BoundaryFiles ==
    { <<[Ward |-> 1, the_geom |-> Box(1, 1, 3, 3)]>>,
      <<[Ward |-> 1, the_geom |-> Box(0, 0, 2, MaxLat)],
        [Ward |-> 2, the_geom |-> Box(2, 0, MaxLon, MaxLat)]>>,
      <<[Ward |-> 7, the_geom |-> Box(0, 0, 3, 3)],
        [Ward |-> 4, the_geom |-> Box(1, 1, MaxLon, MaxLat)]>> }

\* The percentage the file holds for ward w in its k-th percentage column.
Pct(w, k) == (11 * w + 7 * k) % 100

\* pd.read_csv(csv_path): the columns of the file and one row per ward.
read_csv(file) ==
    [columns |-> <<"the_geom", "Ward">> \o percentage_columns,
     rows    |-> [i \in 1 .. Len(file) |->
                     <<file[i].the_geom, file[i].Ward>>
                         \o [k \in 1 .. Len(percentage_columns) |->
                                Pct(file[i].Ward, k)]]]

\* The GeoDataFrame the lookup iterates: the rows of the file in file order.
\* simplify(tolerance=0.001, preserve_topology=True) leaves a rectangle as it
\* is.
load_and_process_data(file) ==
    [i \in 1 .. Len(file) |->
        [Ward |-> file[i].Ward, the_geom |-> file[i].the_geom]]

\* A faulty variant: the loop does not stop at the first match.
RECURSIVE find_ward_last_match(_, _, _)
find_ward_last_match(lat, lon, geodataframe) ==
    IF geodataframe = <<>> THEN None
    ELSE LET n    == Len(geodataframe)
             row  == geodataframe[n]
         IN  IF Contains(row.the_geom, Point(lon, lat))
             THEN Some(row.Ward)
             ELSE find_ward_last_match(lat, lon, SubSeq(geodataframe, 1, n - 1))

\* for _, row in geodataframe.iterrows(): the first row whose geometry
\* contains Point(lon, lat).  st.cache_data keys the cached result by the
\* three arguments, and the function reads nothing else, so a cached result
\* is the computed one.
RECURSIVE find_ward(_, _, _)
find_ward(lat, lon, geodataframe) ==
    IF geodataframe = <<>> THEN None
    ELSE LET row == Head(geodataframe)
         IN  IF Contains(row.the_geom, Point(lon, lat))
             THEN Some(row.Ward)
             ELSE find_ward(lat, lon, Tail(geodataframe))

\* DataFrame.rename(columns=mapping): a column the mapping names is renamed.
Rename(frame, mapping) ==
    [frame EXCEPT !.columns =
        [i \in 1 .. Len(frame.columns) |->
            IF frame.columns[i] \in DOMAIN mapping
            THEN mapping[frame.columns[i]] ELSE frame.columns[i]]]

\* The position of a column name in a frame, 0 when the frame has no such
\* column.
ColumnIndex(frame, name) ==
    IF \E i \in 1 .. Len(frame.columns) : frame.columns[i] = name
    THEN CHOOSE i \in 1 .. Len(frame.columns) : frame.columns[i] = name
    ELSE 0

\* frame[frame['Ward'] == ward]: the rows of that ward, in order.
RowsOfWard(frame, ward) ==
    LET w == ColumnIndex(frame, "Ward")
        RECURSIVE Keep(_)
        Keep(rows) ==
            IF rows = <<>> THEN <<>>
            ELSE (IF Head(rows)[w] = ward THEN <<Head(rows)>> ELSE <<>>)
                     \o Keep(Tail(rows))
    IN  IF w = 0 THEN <<>> ELSE Keep(frame.rows)

(***************************************************************************)
(* The prediction API, as the script sees it.                              *)
(***************************************************************************)
CrimeTypes == {"THEFT", "BATTERY", "ASSAULT"}

\* The probability (in 1/1000) and the count the API reports for a type.
ProbabilityOf(type) ==
    CASE type = "THEFT" -> 200 [] type = "BATTERY" -> 100 [] OTHER -> 50

CountOf(type) ==
    CASE type = "THEFT" -> 5 [] type = "BATTERY" -> 3 [] OTHER -> 1

\* The orders in which a JSON object can list at most MaxTypes crime types.
KeyOrders ==
    { ks \in UNION { [1 .. n -> CrimeTypes] : n \in 0 .. MaxTypes } :
        \A i, j \in 1 .. Len(ks) : i # j => ks[i] # ks[j] }

\* A JSON object is the sequence of its <<key, value>> pairs, in the order
\* json() yields them.
ProbabilityDicts ==
    { [i \in 1 .. Len(ks) |-> <<ks[i], ProbabilityOf(ks[i])>>] : ks \in KeyOrders }

CountDicts ==
    { [i \in 1 .. Len(ks) |-> <<ks[i], CountOf(ks[i])>>] : ks \in KeyOrders }

\* The bodies a reply can carry: text that is no JSON, or a JSON object in
\* which each of the two mappings is present or absent.
Bodies ==
    { [json |-> FALSE] }
    \cup [json : {TRUE},
          crime_types_probability : {None} \cup { Some(d) : d \in ProbabilityDicts },
          crime_types_count : {None} \cup { Some(d) : d \in CountDicts }]

StatusCodes == {200, 404, 500}

\* The replies of the API: a 200 with any of the bodies, or another status
\* with an error page, which the script only echoes as response.text.
Replies ==
    { [kind |-> "response", status_code |-> 200, body |-> b] : b \in Bodies }
    \cup { [kind |-> "response", status_code |-> c, body |-> [json |-> FALSE]] :
              c \in StatusCodes \ {200} }

Keys(dict) == [i \in 1 .. Len(dict) |-> dict[i][1]]

Values(dict) == [i \in 1 .. Len(dict) |-> dict[i][2]]

(***************************************************************************)
(* One run of the script, top to bottom.                                   *)
(***************************************************************************)
\* Python's truth value of a value that is None, a tuple or a string.
Truthy(v) == v # None

\* Python's truth value of a ward identifier that may be None.
TruthyWard(w) == w # None /\ w[1] # 0

\* A faulty variant: the guard forgets the ward.
SelectionCompleteWithoutWard(coords, ward, time) ==
    Truthy(coords) /\ Truthy(time)

\* all([selected_coords, selected_ward, middle_time])
SelectionComplete(coords, ward, time) ==
    Truthy(coords) /\ TruthyWard(ward) /\ Truthy(time)

\* gdf comes from the st.cache_data cache; ward_bound is read again.
LoadData ==
    /\ ward_bound' = read_csv(csv_file)
    /\ UNCHANGED <<csv_file, gdf>>

\* A faulty variant: a click outside every ward keeps the previous ward.
HandleMapClicksKeepingWard(clicked) ==
    IF clicked # None
    THEN /\ selected_coords' = <<clicked[1], clicked[2]>>
         /\ selected_ward' =
                IF find_ward(clicked[1], clicked[2], gdf) # None
                THEN find_ward(clicked[1], clicked[2], gdf)
                ELSE selected_ward
    ELSE UNCHANGED <<selected_coords, selected_ward>>

\* clicked is map_output['last_clicked'] as <<lat, lng>>.
HandleMapClicks(clicked) ==
    IF clicked # None
    THEN /\ selected_coords' = <<clicked[1], clicked[2]>>
         /\ selected_ward' = find_ward(clicked[1], clicked[2], gdf)
    ELSE UNCHANGED <<selected_coords, selected_ward>>

TimeSelection(date, category) ==
    /\ selected_date' = date
    /\ selected_category' = category
    /\ middle_time' = get_middle_time_for_category(category, date)

\* Everything above the button, with the widget values of this run.
ScriptTop(clicked, date, category) ==
    /\ LoadData
    /\ last_clicked' = clicked
    /\ HandleMapClicks(clicked)
    /\ TimeSelection(date, category)

\* st.sidebar.button returned False: the run shows no prediction.
ButtonNotPressed ==
    /\ pc' = "idle"
    /\ payload' = None
    /\ posts' = 0
    /\ response' = None
    /\ reports' = <<>>
    /\ fig' = None
    /\ demographics' = None

\* The payload of the request, from the session state of this run.
Payload(coords, ward, time) ==
    [ward |-> ward, date_of_occurrence |-> time,
     latitude |-> coords[1], longitude |-> coords[2]]

\* st.sidebar.button returned True: the guard, then the payload and the
\* call of requests.post, inside which the run blocks.
GetPrediction ==
    /\ response' = None
    /\ fig' = None
    /\ demographics' = None
    /\ IF ~SelectionComplete(selected_coords', selected_ward', middle_time')
       THEN /\ reports' = <<"incomplete selection">>
            /\ payload' = None
            /\ posts' = 0
            /\ pc' = "idle"
       ELSE /\ reports' = <<>>
            /\ payload' = Some(Payload(selected_coords', selected_ward',
                                       middle_time'))
            /\ posts' = 1
            /\ pc' = "waiting"

(***************************************************************************)
(* The rest of the button's handler, once requests.post has come back.     *)
(***************************************************************************)
\* What st.plotly_chart and the st.* messages show, and what becomes of
\* st.session_state.ward_bound, when nothing more is drawn after `said`.
Shown(said, chart, charts, frame) ==
    [reports |-> said, fig |-> chart, demographics |-> charts,
     ward_bound |-> frame]

\* ward_data[cols].iloc[0].values: None when a column or the row is missing
\* (pandas raises KeyError or IndexError).
FirstRowValues(frame, ward_data, cols) ==
    IF ward_data = <<>> \/ \E i \in 1 .. Len(cols) : ColumnIndex(frame, cols[i]) = 0
    THEN None
    ELSE Some([i \in 1 .. Len(cols) |-> ward_data[1][ColumnIndex(frame, cols[i])]])

race_cols ==
    <<"White Population (%)", "Black Population (%)", "Asian Population (%)",
      "Hispanic Population (%)">>

income_cols ==
    <<"Income <$25k (%)", "Income $25k-$50k (%)", "Income $50k-$100k (%)",
      "Income $100k-$150k (%)", "Income >$150k (%)">>

\* The demographic charts of the ward, drawn after the crime chart `chart`.
DemographicVisualization(chart, ward, frame) ==
    LET renamed       == Rename(frame, layer_name_mapping)
        ward_data     == RowsOfWard(renamed, ward)
        race_values   == FirstRowValues(renamed, ward_data, race_cols)
        income_values == FirstRowValues(renamed, ward_data, income_cols)
    IN  IF race_values = None
        THEN Shown(<<"success", "exception">>, chart, None, renamed)
        ELSE IF income_values = None
        THEN Shown(<<"success", "exception">>, chart,
                   Some([race |-> race_values[1]]), renamed)
        ELSE Shown(<<"success">>, chart,
                   Some([race |-> race_values[1], income |-> income_values[1]]),
                   renamed)

\* The two bar traces of the crime chart: both over x = labels.
CrimeChart(labels, probabilities, counts) ==
    [x |-> labels, probability |-> probabilities, count |-> counts]

\* response.status_code == 200: st.success, then the extraction and the
\* charts; any exception on the way ends in the handler's except clause.
PredictionVisualization(body, ward, frame) ==
    IF ~body.json
    THEN Shown(<<"exception">>, None, None, frame)
    ELSE IF body.crime_types_probability = None \/ body.crime_types_count = None
    THEN Shown(<<"success", "exception">>, None, None, frame)
    ELSE LET labels        == Keys(body.crime_types_probability[1])
             probabilities == [i \in 1 .. Len(labels) |->
                                  Values(body.crime_types_probability[1])[i] * 100]
             counts        == Values(body.crime_types_count[1])
         IN  IF probabilities = <<>>
             THEN Shown(<<"success", "exception">>, None, None, frame)
             ELSE DemographicVisualization(
                      Some(CrimeChart(labels, probabilities, counts)), ward, frame)

\* What the handler does with what requests.post produced.
AfterPost(produced, ward, frame) ==
    IF produced.kind = "exception"
    THEN Shown(<<"exception">>, None, None, frame)
    ELSE IF produced.status_code = 200
    THEN PredictionVisualization(produced.body, ward, frame)
    ELSE Shown(<<"api error">>, None, None, frame)

(***************************************************************************)
(* The state after the first run of the script, and the interactions.      *)
(***************************************************************************)
\* The dates the date picker is set to, datetime.today() among them.
DateChoices == {Date(2024, 2, 29), Date(2024, 12, 31)}

\* The directly called bucketer: its arguments before any call.
NoCall ==
    /\ arg_category = categories[1]
    /\ arg_date = Date(2023, 1, 1)
    /\ ret = None

\* The first run: no click yet, today's date, the first category, the button
\* not pressed.
FirstRun(file, today) ==
    /\ csv_file = file
    /\ gdf = load_and_process_data(file)
    /\ ward_bound = read_csv(file)
    /\ last_clicked = None
    /\ selected_coords = None
    /\ selected_ward = None
    /\ selected_date = today
    /\ selected_category = categories[1]
    /\ middle_time = get_middle_time_for_category(categories[1], today)
    /\ pc = "idle"
    /\ payload = None
    /\ posts = 0
    /\ response = None
    /\ reports = <<>>
    /\ fig = None
    /\ demographics = None

Init ==
    /\ \E file \in BoundaryFiles, today \in DateChoices : FirstRun(file, today)
    /\ NoCall

\* The user clicks the map at (lat, lon).
MapClick(lat, lon) ==
    /\ pc = "idle"
    /\ ScriptTop(<<lat, lon>>, selected_date, selected_category)
    /\ ButtonNotPressed
    /\ UNCHANGED callVars

\* The user picks a date.
ChangeDate(date) ==
    /\ pc = "idle"
    /\ date # selected_date
    /\ ScriptTop(last_clicked, date, selected_category)
    /\ ButtonNotPressed
    /\ UNCHANGED callVars

\* The user picks a time category.
ChangeCategory(category) ==
    /\ pc = "idle"
    /\ category # selected_category
    /\ ScriptTop(last_clicked, selected_date, category)
    /\ ButtonNotPressed
    /\ UNCHANGED callVars

\* The user presses "Get Prediction".
PressGetPrediction ==
    /\ pc = "idle"
    /\ ScriptTop(last_clicked, selected_date, selected_category)
    /\ GetPrediction
    /\ UNCHANGED callVars

\* The remote API answers the request in flight.
RemoteResponds(reply) ==
    /\ pc = "waiting"
    /\ response = None
    /\ response' = Some(reply)
    /\ UNCHANGED <<csv_file, gdf, ward_bound, last_clicked, selected_coords,
                   selected_ward, selected_date, selected_category,
                   middle_time, pc, payload, posts, reports, fig,
                   demographics>>
    /\ UNCHANGED callVars

\* requests.post raises: the API cannot be reached or the connection breaks.
ConnectionFails ==
    /\ pc = "waiting"
    /\ response = None
    /\ response' = Some([kind |-> "exception"])
    /\ UNCHANGED <<csv_file, gdf, ward_bound, last_clicked, selected_coords,
                   selected_ward, selected_date, selected_category,
                   middle_time, pc, payload, posts, reports, fig,
                   demographics>>
    /\ UNCHANGED callVars

\* The handler's outcome, left on the page when the run ends.
FinishRun(produced) ==
    LET out == AfterPost(produced, selected_ward[1], ward_bound)
    IN  /\ reports' = out.reports
        /\ fig' = out.fig
        /\ demographics' = out.demographics
        /\ ward_bound' = out.ward_bound
        /\ pc' = "idle"
        /\ UNCHANGED <<csv_file, gdf, last_clicked, selected_coords,
                       selected_ward, selected_date, selected_category,
                       middle_time, payload, posts, response>>

\* Whether requests.post raised or the status is not 200.
CallFailed(produced) ==
    produced.kind = "exception" \/ produced.status_code # 200

\* A faulty variant: a failed call is sent again.
HandleResponseWithRetry ==
    /\ pc = "waiting"
    /\ response # None
    /\ IF CallFailed(response[1])
       THEN /\ posts' = posts + 1
            /\ response' = None
            /\ UNCHANGED <<csv_file, gdf, ward_bound, last_clicked,
                           selected_coords, selected_ward, selected_date,
                           selected_category, middle_time, pc, payload,
                           reports, fig, demographics>>
       ELSE FinishRun(response[1])
    /\ UNCHANGED callVars

\* requests.post has come back: the run goes on to its end.
HandleResponse ==
    /\ pc = "waiting"
    /\ response # None
    /\ FinishRun(response[1])
    /\ UNCHANGED callVars

Next ==
    \/ \E lat \in Lats, lon \in Lons : MapClick(lat, lon)
    \/ \E date \in DateChoices : ChangeDate(date)
    \/ \E i \in 1 .. Len(categories) : ChangeCategory(categories[i])
    \/ PressGetPrediction
    \/ \E reply \in Replies : RemoteResponds(reply)
    \/ ConnectionFails
    \/ HandleResponse

Spec == Init /\ [][Next]_vars

\* The script thread runs on as soon as requests.post has come back.  Nothing
\* makes the user act or the remote API answer.
LiveSpec == Spec /\ WF_vars(HandleResponse)

(***************************************************************************)
(* The time bucketer called directly, on any label and any date.           *)
(***************************************************************************)
\* Labels that are not keys of time_ranges.
OtherLabels ==
    {"Late Night", "Early Night", "", "late night (00:00 to 06:00)",
     "Midnight (00:00 to 03:00)"}

CallLabels == { categories[i] : i \in 1 .. Len(categories) } \cup OtherLabels

CallDates ==
    { Date(y, m, d) : y \in 2023 .. MaxYear, m \in 1 .. 12, d \in 1 .. 31 }
        \ { date \in [year : 2023 .. MaxYear, month : 1 .. 12, day : 29 .. 31] :
              date.day > DaysInMonth(date.year, date.month) }

BucketInit ==
    /\ FirstRun(<<[Ward |-> 1, the_geom |-> Box(1, 1, 3, 3)]>>,
                Date(2024, 2, 29))
    /\ arg_category \in CallLabels
    /\ arg_date \in CallDates
    /\ ret = None

\* The call returns: the function has no raise statement.
CallBucketer ==
    /\ ret = None
    /\ ret' = Some([kind  |-> "return",
                    value |-> get_middle_time_for_category(arg_category,
                                                           arg_date)])
    /\ UNCHANGED <<arg_category, arg_date>>
    /\ UNCHANGED appVars

BucketNext == CallBucketer

BucketSpec == BucketInit /\ [][BucketNext]_vars

(***************************************************************************)
(* Properties.                                                             *)
(***************************************************************************)
FixedLabels == { categories[i] : i \in 1 .. Len(categories) }

\* The number a string of decimal digits writes.
RECURSIVE Number(_)
Number(chars) ==
    IF chars = <<>> THEN 0
    ELSE 10 * Number(SubSeq(chars, 1, Len(chars) - 1))
             + (CHOOSE n \in 0 .. 9 : Digits[n + 1] = chars[Len(chars)])

\* The clock time of each bucket's midpoint, as HH:MM.
MidpointClock ==
    ("Late Night (00:00 to 06:00)" :> <<"0", "3", ":", "0", "0">>)
 @@ ("Early Morning (06:00 to 09:00)" :> <<"0", "7", ":", "3", "0">>)
 @@ ("Late Morning (09:00 to 12:00)" :> <<"1", "0", ":", "3", "0">>)
 @@ ("Early Noon (12:00 to 15:00)" :> <<"1", "3", ":", "3", "0">>)
 @@ ("Late Noon (15:00 to 18:00)" :> <<"1", "6", ":", "3", "0">>)
 @@ ("Early Night (18:00 to 24:00)" :> <<"2", "1", ":", "0", "0">>)

\* C1: for each of the six fixed labels and every date D, the bucketer
\* returns a 16-character 'YYYY-MM-DD HH:MM' timestamp whose date part reads
\* D (no roll-over into the next day) and whose time part is the bucket's
\* midpoint: 03:00, 07:30, 10:30, 13:30, 16:30, 21:00.
C1_MidpointOfBucket ==
    (ret # None /\ arg_category \in FixedLabels) =>
        LET stamp == ret[1].value
        IN  /\ ret[1].kind = "return"
            /\ Len(stamp) = 16
            /\ stamp[5] = "-" /\ stamp[8] = "-" /\ stamp[11] = " "
            /\ Number(SubSeq(stamp, 1, 4)) = arg_date.year
            /\ Number(SubSeq(stamp, 6, 7)) = arg_date.month
            /\ Number(SubSeq(stamp, 9, 10)) = arg_date.day
            /\ SubSeq(stamp, 12, 16) = MidpointClock[arg_category]

\* Early Night on the last day of a year: 2024-12-31 21:00.
C1_Witness ==
    /\ arg_category = "Early Night (18:00 to 24:00)"
    /\ arg_date = Date(2024, 12, 31)
    /\ ret = Some([kind  |-> "return",
                   value |-> <<"2", "0", "2", "4", "-", "1", "2", "-", "3", "1",
                               " ", "2", "1", ":", "0", "0">>])

\* Whether (lat, lon) lies strictly inside, or strictly outside, a rectangle.
StrictlyInside(geom, lat, lon) ==
    /\ geom.minx < lon /\ lon < geom.maxx
    /\ geom.miny < lat /\ lat < geom.maxy

StrictlyOutside(geom, lat, lon) ==
    \/ lon < geom.minx \/ lon > geom.maxx
    \/ lat < geom.miny \/ lat > geom.maxy

\* Whether no two wards of the data share an interior point of the plane
\* (rectangles: their open intervals are disjoint on one axis).
NonOverlapping(frame) ==
    \A i, j \in 1 .. Len(frame) :
        i # j =>
            \/ frame[i].the_geom.maxx <= frame[j].the_geom.minx
            \/ frame[j].the_geom.maxx <= frame[i].the_geom.minx
            \/ frame[i].the_geom.maxy <= frame[j].the_geom.miny
            \/ frame[j].the_geom.maxy <= frame[i].the_geom.miny

\* C2: the ward resolved for the clicked point is the ward of the first row,
\* in the order of the data, whose polygon contains the point, and None when
\* no polygon contains it; with non-overlapping wards a point strictly inside
\* a ward resolves to that ward and a point strictly outside every ward
\* resolves to None.
C2_FirstContainingWard ==
    selected_coords # None =>
        LET lat  == selected_coords[1]
            lon  == selected_coords[2]
            hits == { i \in 1 .. Len(gdf) :
                        Contains(gdf[i].the_geom, Point(lon, lat)) }
        IN  /\ hits = {} => selected_ward = None
            /\ hits # {} =>
                   \E i \in hits :
                       /\ \A j \in hits : i <= j
                       /\ selected_ward = Some(gdf[i].Ward)
            /\ NonOverlapping(gdf) =>
                   /\ \A i \in 1 .. Len(gdf) :
                          StrictlyInside(gdf[i].the_geom, lat, lon)
                              => selected_ward = Some(gdf[i].Ward)
                   /\ (\A i \in 1 .. Len(gdf) :
                           StrictlyOutside(gdf[i].the_geom, lat, lon))
                          => selected_ward = None

\* A click where two wards overlap resolves to the ward listed first.
C2_Witness ==
    /\ Len(gdf) = 2
    /\ ~NonOverlapping(gdf)
    /\ selected_coords = <<2, 2>>
    /\ selected_ward = Some(gdf[1].Ward)

\* C3: pressing "Get Prediction" while the selected ward is None sends no
\* request, whatever the coordinates, the date and the category are: the run
\* ends with the incomplete-selection message and builds no payload.
C3_NoRequestWithoutWard ==
    [][(PressGetPrediction /\ selected_ward = None) =>
          /\ reports' = <<"incomplete selection">>
          /\ payload' = None
          /\ posts' = 0
          /\ pc' = "idle"]_vars

\* The button was pressed after a click outside every ward.
C3_Witness ==
    /\ selected_coords # None
    /\ selected_ward = None
    /\ middle_time # None
    /\ reports = <<"incomplete selection">>
    /\ payload = None

\* Whether a mapping has a key, and the value it stores under it.
HasKey(dict, key) == \E i \in 1 .. Len(dict) : dict[i][1] = key

Get(dict, key) == dict[CHOOSE i \in 1 .. Len(dict) : dict[i][1] = key][2]

\* The count the chart draws at position i of its x axis (no bar: zero).
ChartedCount(chart, i) ==
    IF i <= Len(chart.count) THEN chart.count[i] ELSE 0

\* C4: in the chart of a successful response every crime type of
\* crime_types_probability is drawn with its probability times 100 and with
\* the count stored under the same key in crime_types_count (zero when the
\* key is missing there), and a key of crime_types_count alone is drawn too.
C4_CountsPairedByKey ==
    fig # None =>
        LET probability == response[1].body.crime_types_probability[1]
            count       == response[1].body.crime_types_count[1]
            chart       == fig[1]
        IN  /\ \A i \in 1 .. Len(chart.x) :
                   /\ HasKey(probability, chart.x[i]) =>
                          chart.probability[i] = Get(probability, chart.x[i]) * 100
                   /\ ChartedCount(chart, i) =
                          IF HasKey(count, chart.x[i])
                          THEN Get(count, chart.x[i]) ELSE 0
            /\ \A i \in 1 .. Len(count) :
                   \E j \in 1 .. Len(chart.x) : chart.x[j] = count[i][1]

Says(message) == \E i \in 1 .. Len(reports) : reports[i] = message

\* C5: one interaction never reports both the success and an error, and it
\* reports the success only when both mappings are present and the charts
\* are drawn.
C5_NoPartialSuccess ==
    /\ ~(Says("success") /\ (Says("exception") \/ Says("api error")))
    /\ Says("success") =>
           /\ response[1].body.crime_types_probability # None
           /\ response[1].body.crime_types_count # None
           /\ fig # None
           /\ demographics # None

\* C6: every call that is issued finishes, also when the remote API never
\* answers: the run ends with the success, the API error or the exception.
C6_IssuedCallFinishes ==
    (pc = "waiting") ~>
        (pc = "idle" /\ (Says("success") \/ Says("api error") \/ Says("exception")))

\* A step that sends a POST.
SendsPost == posts' > posts \/ (pc = "idle" /\ pc' = "waiting")

\* C7: a POST is sent only by a press of the button, one per press; the step
\* that follows a non-200 reply or a failed connection shows the error, ends
\* the run and sends nothing.
C7_OnePostPerPress ==
    [][/\ SendsPost => (PressGetPrediction /\ posts' = 1)
       /\ (pc = "waiting" /\ response # None /\ CallFailed(response[1])) =>
              /\ ~SendsPost
              /\ pc' = "idle"
              /\ reports' \in {<<"api error">>, <<"exception">>}]_vars

\* A run that ended on a non-200 reply, after its one POST.
C7_Witness ==
    /\ pc = "idle"
    /\ posts = 1
    /\ response # None
    /\ response[1].kind = "response"
    /\ response[1].status_code = 500
    /\ reports = <<"api error">>

\* C8, as stated: for a label outside the fixed set the bucketer signals an
\* error and returns no value.
C8_InvalidLabelFails ==
    (ret # None /\ arg_category \notin FixedLabels) => ret[1].kind = "raise"

\* C8, amended: for a label outside the fixed set the bucketer signals no
\* error: it returns None, never a timestamp.
C8_InvalidLabelReturnsNone ==
    (ret # None /\ arg_category \notin FixedLabels) =>
        ret = Some([kind |-> "return", value |-> None])

\* The short label "Late Night" is no key of time_ranges.
C8_Witness ==
    /\ arg_category = "Late Night"
    /\ ret = Some([kind |-> "return", value |-> None])

\* C9: no interaction changes the loaded ward data: its rows, its values and
\* its column names stay as loaded.
C9_WardDataImmutable ==
    /\ gdf = load_and_process_data(csv_file)
    /\ ward_bound.rows = read_csv(csv_file).rows
    /\ ward_bound.columns = <<"the_geom", "Ward">> \o percentage_columns

\* C10: the stored ward is the ward of the stored coordinates (None when
\* they lie in no ward), and a payload sent carries that ward, those
\* coordinates as latitude and longitude, and the midpoint timestamp of the
\* selected date and category.
C10_SelectionConsistent ==
    /\ selected_coords = None => (selected_ward = None /\ payload = None)
    /\ selected_coords # None =>
           selected_ward = find_ward(selected_coords[1], selected_coords[2], gdf)
    /\ payload # None =>
           payload[1] =
               [ward               |-> selected_ward,
                date_of_occurrence |->
                    get_middle_time_for_category(selected_category, selected_date),
                latitude           |-> selected_coords[1],
                longitude          |-> selected_coords[2]]

\* A request sent for a click inside the second of two wards.
C10_Witness ==
    /\ payload # None
    /\ Len(gdf) = 2
    /\ selected_ward = Some(gdf[2].Ward)
    /\ payload[1].ward = selected_ward
    /\ payload[1].latitude # payload[1].longitude

====
